---- MODULE Spec2Model ----
(***************************************************************************)
(* Model of datasets/newsqa/newsqa.py: the Newsqa dataset builder.         *)
(*                                                                         *)
(* _split_generators resolves the manual directory to the partitions of    *)
(* the configured variant; _generate_examples is a generator that streams  *)
(* one partition file and yields (id_, record) pairs.  A generator does no *)
(* work until it is pulled, so one action of the model is one pull: the    *)
(* code that runs from the generator's current position up to the next     *)
(* yield, to the end of the function body, or to a raised exception.       *)
(*                                                                         *)
(* Strings whose characters matter (the fields of a delimited row) are     *)
(* sequences of one-character strings; Str turns one into a string.        *)
(* Semantics are those of Python >= 3.7 (PEP 479: a StopIteration that     *)
(* escapes a generator body is turned into RuntimeError).                  *)
(***************************************************************************)
EXTENDS Integers, Sequences, FiniteSets, TLC

VARIABLES
    config_name,   \* self.config.name
    root_exists,   \* the filesystem: os.path.exists(path_to_manual_folder)
    generators,    \* the list _split_generators returned (gen_kwargs of each)
    sg_result,     \* _split_generators: "not_called", "returned" or the exception raised
    joined,        \* the paths os.path.join built during the last _split_generators
    pc,            \* the generator: "idle", "created", "suspended", "done", "failed"
    filepath,      \* _generate_examples' argument
    split,         \* _generate_examples' argument
    d,             \* <<json.load(f)>> once a structured file is loaded, else <<>>
    rows,          \* what csv_reader / d["data"] iterates over, once the file is open
    pos,           \* how many elements the underlying iterator has handed out
    count,         \* enumerate's counter: the next id_ it will hand out
    yielded,       \* the (id_, record) pairs yielded by this pass, in order
    error          \* the exception that ended the pass, or "none"

vars == <<config_name, root_exists, generators, sg_result, joined, pc, filepath, split,
          d, rows, pos, count, yielded, error>>

----------------------------------------------------------------------------
(* Bounds of the model.                                                    *)

MaxRows == 3
MaxItems == 3

----------------------------------------------------------------------------
(* Python helpers.                                                         *)

RECURSIVE Str(_)
Str(cs) == IF cs = <<>> THEN "" ELSE Head(cs) \o Str(Tail(cs))

RECURSIVE Concat(_)
Concat(ss) == IF ss = <<>> THEN <<>> ELSE Head(ss) \o Concat(Tail(ss))

Max(a, b) == IF a >= b THEN a ELSE b
Min(a, b) == IF a <= b THEN a ELSE b

\* s[lo:hi] for a sequence s (0-based, negative bounds count from the end,
\* bounds are clamped to 0..len(s)).
PySlice(s, lo, hi) ==
    LET n == Len(s)
        a == IF lo < 0 THEN Max(n + lo, 0) ELSE Min(lo, n)
        b == IF hi < 0 THEN Max(n + hi, 0) ELSE Min(hi, n)
    IN  IF a >= b THEN <<>> ELSE SubSeq(s, a + 1, b)

Has(cs, c) == \E i \in 1..Len(cs) : cs[i] = c

\* repr() of a str of printable characters: single quotes, unless the string
\* holds a single quote and no double quote; the quote in use and the
\* backslash are escaped.
PyRepr(cs) ==
    LET q   == IF Has(cs, "'") /\ ~Has(cs, "\"") THEN "\"" ELSE "'"
        esc == [i \in 1..Len(cs) |->
                   IF cs[i] = "\\" \/ cs[i] = q THEN <<"\\", cs[i]>> ELSE <<cs[i]>>]
    IN  <<q>> \o Concat(esc) \o <<q>>

\* str() of a list of str: "[" + ", ".join(repr(x) for x in l) + "]"
PyStrList(l) ==
    LET item == [i \in 1..Len(l) |->
                    IF i = 1 THEN PyRepr(l[i]) ELSE <<",", " ">> \o PyRepr(l[i])]
    IN  <<"[">> \o Concat(item) \o <<"]">>

----------------------------------------------------------------------------
(* Inputs: the rows csv.reader returns for a file.  A blank line is the    *)
(* empty row <<>>.                                                         *)

HeaderRow == << <<"i","d">>, <<"q">>, <<"s","1">>, <<"s","2">>, <<"t","e","x","t">> >>

DataRow == << <<"A","1">>, <<"w","h","a","t","?">>, <<"0",":","3">>, <<>>,
              <<"s","t","o","r","y",".">> >>

QuoteRow == << <<"B","2">>, <<"i","t","'","s">>, <<"'","\"">>, <<"\\">>,
               <<"0",":","3",",","5",":","7">>, <<"x">>, <<"y">> >>

SplitRow == << <<"A","1">>, <<"s","t","o","r","y"," ","t","e","x","t">>,
               <<"q","u","e","s","t","i","o","n">>, <<"0",":","3",",","5",":","7">> >>

CsvRows ==
    {<<>>, HeaderRow, QuoteRow, SplitRow} \cup {SubSeq(DataRow, 1, n) : n \in 1..Len(DataRow)}

RECURSIVE SeqsUpTo(_, _)
SeqsUpTo(S, n) ==
    IF n = 0 THEN {<<>>}
    ELSE LET shorter == SeqsUpTo(S, n - 1)
         IN  shorter \cup {Append(s, x) : s \in {t \in shorter : Len(t) = n - 1}, x \in S}

CsvFiles == SeqsUpTo(CsvRows, MaxRows)

----------------------------------------------------------------------------
(* _split_generators                                                       *)

ConfigNames == {"combined-csv", "combined-json", "split"}

\* os.path.abspath(os.path.expanduser(dl_manager.manual_dir)), as path components
path_to_manual_folder == <<"manual_dir">>

\* os.path.join(a, name) for a relative single-component name
PathJoin(a, name) == Append(a, name)

SplitGenerator(name, path, sp) == [name |-> name, filepath |-> path, split |-> sp]

SplitGeneratorsFor(name) ==
    IF name = "combined-csv" THEN
        << SplitGenerator("train",
               PathJoin(path_to_manual_folder, "combined-newsqa-data-v1.csv"), "combined") >>
    ELSE IF name = "combined-json" THEN
        << SplitGenerator("train",
               PathJoin(path_to_manual_folder, "combined-newsqa-data-v1.json"), "combined") >>
    ELSE
        LET split_files == PathJoin(path_to_manual_folder, "split_data")
        IN  << SplitGenerator("train", PathJoin(split_files, "train.csv"), "train"),
               SplitGenerator("test", PathJoin(split_files, "test.csv"), "test"),
               SplitGenerator("validation", PathJoin(split_files, "dev.csv"), "dev") >>

JoinedFor(name) ==
    {SplitGeneratorsFor(name)[i].filepath : i \in 1..Len(SplitGeneratorsFor(name))}
    \cup (IF name \in {"combined-csv", "combined-json"} THEN {}
          ELSE {PathJoin(path_to_manual_folder, "split_data")})

split_generators_join_first ==
    /\ generators' = IF root_exists THEN SplitGeneratorsFor(config_name) ELSE <<>>
    /\ joined' = JoinedFor(config_name)
    /\ sg_result' = IF root_exists THEN "returned" ELSE "FileNotFoundError"
    /\ UNCHANGED <<config_name, root_exists, pc, filepath, split, d, rows, pos, count,
                   yielded, error>>

\* One call of _split_generators.
split_generators ==
    /\ IF ~root_exists
       THEN /\ sg_result' = "FileNotFoundError"
            /\ generators' = <<>>
            /\ joined' = {}
       ELSE /\ sg_result' = "returned"
            /\ generators' = SplitGeneratorsFor(config_name)
            /\ joined' = JoinedFor(config_name)
    /\ UNCHANGED <<config_name, root_exists, pc, filepath, split, d, rows, pos, count,
                   yielded, error>>

----------------------------------------------------------------------------
(* _generate_examples, delimited variants                                  *)

CombinedCsvRecordThroughSecondToLast(row) ==
    [story_id |-> row[1],
     story_text |-> row[Len(row)],
     question |-> row[2],
     answer_char_ranges |-> PyStrList(PySlice(row, 2, -1))]

CombinedCsvRecord(row) ==
    [story_id |-> row[1],
     story_text |-> row[Len(row)],
     question |-> row[2],
     answer_char_ranges |-> PyStrList(PySlice(row, 2, -2))]

SplitRecordSwapped(row) ==
    [story_id |-> row[1],
     story_text |-> row[3],
     question |-> row[2],
     answer_token_ranges |-> row[4]]

SplitRecord(row) ==
    [story_id |-> row[1],
     story_text |-> row[2],
     question |-> row[3],
     answer_token_ranges |-> row[4]]

\* Whether row[i] (0-based, negative from the end) is in range.
InRange(row, i) == IF i < 0 THEN -i <= Len(row) ELSE i < Len(row)

\* Whether building the record raises IndexError: the subscripts the dict
\* display evaluates (a slice never raises).
CombinedCsvRaises(row) == ~(InRange(row, 0) /\ InRange(row, -1) /\ InRange(row, 1))

SplitRaises(row) ==
    ~(InRange(row, 0) /\ InRange(row, 1) /\ InRange(row, 2) /\ InRange(row, 3))

CsvRaises(name, row) ==
    IF name = "combined-csv" THEN CombinedCsvRaises(row) ELSE SplitRaises(row)

CsvRecord(name, row) ==
    IF name = "combined-csv" THEN CombinedCsvRecord(row) ELSE SplitRecord(row)

\* `for id_, row in enumerate(csv_reader): if row: yield ...` resumed with p rows
\* consumed and enumerate's counter at c: runs to the next yield, to the end of
\* the rows, or to an IndexError.
RECURSIVE CsvLoop(_, _, _, _)
CsvLoop(name, rs, p, c) ==
    IF p >= Len(rs) THEN [kind |-> "done", pos |-> p, count |-> c]
    ELSE LET row == rs[p + 1]
             id_ == c
         IN  IF row # <<>>
             THEN IF CsvRaises(name, row)
                  THEN [kind |-> "IndexError", pos |-> p + 1, count |-> c + 1]
                  ELSE [kind |-> "yield", pos |-> p + 1, count |-> c + 1,
                        out |-> <<id_, CsvRecord(name, row)>>]
             ELSE CsvLoop(name, rs, p + 1, c + 1)

\* `_ = next(csv_reader)` and the loop up to its first yield; next() on a reader
\* without rows raises StopIteration, which leaves the generator as RuntimeError.
CsvFirst(name, file) ==
    IF file = <<>>
    THEN [kind |-> "RuntimeError", pos |-> 0, count |-> 0]
    ELSE CsvLoop(name, file, 1, 0)

ApplyStep(r) ==
    /\ pos' = r.pos
    /\ count' = r.count
    /\ IF r.kind = "yield"
       THEN pc' = "suspended" /\ yielded' = Append(yielded, r.out) /\ error' = "none"
       ELSE IF r.kind = "done"
       THEN pc' = "done" /\ UNCHANGED yielded /\ error' = "none"
       ELSE pc' = "failed" /\ UNCHANGED yielded /\ error' = r.kind

IsCsv == config_name \in {"combined-csv", "split"}

\* The harness calls self._generate_examples(**gen_kwargs): a generator object
\* is created, none of its body runs.
generate_examples(g) ==
    /\ g \in 1..Len(generators)
    /\ pc' = "created"
    /\ filepath' = generators[g].filepath
    /\ split' = generators[g].split
    /\ d' = <<>> /\ rows' = <<>> /\ pos' = 0 /\ count' = 0 /\ yielded' = <<>>
    /\ error' = "none"
    /\ UNCHANGED <<config_name, root_exists, generators, sg_result, joined>>

\* First pull, the file does not exist: open() raises.
next_open_fails ==
    /\ pc = "created"
    /\ pc' = "failed" /\ error' = "FileNotFoundError"
    /\ UNCHANGED <<config_name, root_exists, generators, sg_result, joined, filepath, split,
                   d, rows, pos, count, yielded>>

\* First pull of a delimited pass: open, build the reader, next(csv_reader) for
\* the header, then the loop.
next_csv_first ==
    /\ pc = "created" /\ IsCsv
    /\ \E file \in CsvFiles :
           /\ rows' = file
           /\ ApplyStep(CsvFirst(config_name, file))
    /\ UNCHANGED <<config_name, root_exists, generators, sg_result, joined, filepath, split, d>>

\* A later pull of a delimited pass: the loop resumes after the yield.
next_csv ==
    /\ pc = "suspended" /\ IsCsv
    /\ ApplyStep(CsvLoop(config_name, rows, pos, count))
    /\ UNCHANGED <<config_name, root_exists, generators, sg_result, joined, filepath, split,
                   d, rows>>


----------------------------------------------------------------------------
(* _generate_examples, structured variant.  A JSON object is a function    *)
(* from its keys; a JSON array is a sequence.                              *)

Keys(obj) == DOMAIN obj

\* dict(base) with every key of raw assigned over it: the loops
\* `for key in raw: target[key] = raw[key]` and the display {**base, **raw}.
DictUpdateBaseWins(base, raw) ==
    [k \in Keys(base) \cup Keys(raw) |-> IF k \in Keys(base) THEN base[k] ELSE raw[k]]

DictUpdate(base, raw) ==
    [k \in Keys(base) \cup Keys(raw) |-> IF k \in Keys(raw) THEN raw[k] ELSE base[k]]

SpanDefault == [s |-> 0, e |-> 0, badQuestion |-> FALSE, noAnswer |-> FALSE]

default_validated_answer ==
    [s |-> 0, e |-> 0, badQuestion |-> FALSE, noAnswer |-> FALSE, count |-> 0]

\* question["isAnswerAbsent"] / question["isQuestionBad"]
QuestionFlagIgnoresRaw(ques, key) == 0

QuestionFlag(ques, key) == IF key \in Keys(ques) THEN ques[key] ELSE 0

Consensus(ques) == DictUpdate(SpanDefault, ques["consensus"])

SourcerAnswers(ans) ==
    [i \in 1..Len(ans["sourcerAnswers"]) |-> DictUpdate(SpanDefault, ans["sourcerAnswers"][i])]

Answers(ques) ==
    [i \in 1..Len(ques["answers"]) |-> [sourcerAnswers |-> SourcerAnswers(ques["answers"][i])]]

\* ques.get("validatedAnswers", [])
RawValidatedAnswers(ques) ==
    IF "validatedAnswers" \in Keys(ques) THEN ques["validatedAnswers"] ELSE <<>>

ValidatedAnswers(ques) ==
    [i \in 1..Len(RawValidatedAnswers(ques)) |->
        DictUpdate(default_validated_answer, RawValidatedAnswers(ques)[i])]

Question(ques) ==
    [q |-> ques["q"],
     isAnswerAbsent |-> QuestionFlag(ques, "isAnswerAbsent"),
     isQuestionBad |-> QuestionFlag(ques, "isQuestionBad"),
     consensus |-> Consensus(ques),
     answers |-> Answers(ques),
     validated_answers |-> ValidatedAnswers(ques)]

\* The subscripts that raise KeyError when the key is missing.
QuestionRaises(ques) ==
    \/ {"q", "consensus", "answers"} \ Keys(ques) # {}
    \/ \E i \in 1..Len(ques["answers"]) : "sourcerAnswers" \notin Keys(ques["answers"][i])

ItemRaises(item) ==
    \/ "questions" \notin Keys(item)
    \/ \E j \in 1..Len(item["questions"]) : QuestionRaises(item["questions"][j])
    \/ {"storyId", "text", "type"} \ Keys(item) # {}

JsonRecord(item) ==
    [storyId |-> item["storyId"],
     text |-> item["text"],
     type |-> item["type"],
     questions |-> [j \in 1..Len(item["questions"]) |-> Question(item["questions"][j])]]

\* `for id_, item in enumerate(data): ... yield` resumed with p items consumed
\* and enumerate's counter at c.
JsonLoop(data, p, c) ==
    IF p >= Len(data) THEN [kind |-> "done", pos |-> p, count |-> c]
    ELSE LET item == data[p + 1]
             id_ == c
         IN  IF ItemRaises(item)
             THEN [kind |-> "KeyError", pos |-> p + 1, count |-> c + 1]
             ELSE [kind |-> "yield", pos |-> p + 1, count |-> c + 1,
                   out |-> <<id_, JsonRecord(item)>>]

\* `data = d["data"]` and the loop up to its first yield; a document without
\* the key raises KeyError.
JsonFirstLenient(doc) ==
    JsonLoop(IF "data" \in Keys(doc) THEN doc["data"] ELSE <<>>, 0, 0)

JsonFirst(doc) ==
    IF "data" \notin Keys(doc)
    THEN [kind |-> "KeyError", pos |-> 0, count |-> 0]
    ELSE JsonLoop(doc["data"], 0, 0)

(* Inputs: the documents json.load returns.                                *)

RawS5 == "s" :> 5
RawFull == [s |-> 3, e |-> 9, badQuestion |-> TRUE, noAnswer |-> TRUE]
RawNoAnswer == "noAnswer" :> TRUE
RawValidated == [s |-> 1, e |-> 2, badQuestion |-> FALSE, noAnswer |-> TRUE, count |-> 2]
RawCount == ("e" :> 7) @@ ("count" :> 4)
EmptyObject == [k \in {} |-> 0]

QuesBare ==
    [q |-> "who?", consensus |-> RawS5,
     answers |-> << [sourcerAnswers |-> <<RawS5, RawFull, EmptyObject>>] >>]

QuesFull ==
    [q |-> "what?", isAnswerAbsent |-> 1, isQuestionBad |-> 2, consensus |-> RawFull,
     answers |-> << [sourcerAnswers |-> <<>>], [sourcerAnswers |-> <<RawNoAnswer>>] >>,
     validatedAnswers |-> <<RawValidated, RawCount, EmptyObject>>]

QuesBad ==
    [q |-> "when?", isQuestionBad |-> 1, consensus |-> EmptyObject, answers |-> <<>>,
     validatedAnswers |-> <<>>]

QuesNoConsensus == [q |-> "why?", answers |-> <<>>]

Item(id, questions) == [storyId |-> id, text |-> "story.", type |-> "train", questions |-> questions]

JsonItems ==
    { Item("A1", <<>>), Item("B2", <<QuesBare, QuesFull>>), Item("C3", <<QuesBad>>),
      Item("D4", <<QuesFull, QuesNoConsensus>>) }

JsonDocs ==
    {[version |-> "1"]}
    \cup {[version |-> "1", data |-> items] : items \in SeqsUpTo(JsonItems, MaxItems)}

\* First pull of a structured pass: open, json.load, d["data"], then the loop.
next_json_first ==
    /\ pc = "created" /\ config_name = "combined-json"
    /\ \E doc \in JsonDocs :
           /\ d' = <<doc>>
           /\ rows' = IF "data" \in Keys(doc) THEN doc["data"] ELSE <<>>
           /\ ApplyStep(JsonFirst(doc))
    /\ UNCHANGED <<config_name, root_exists, generators, sg_result, joined, filepath, split>>

\* A later pull of a structured pass.
next_json ==
    /\ pc = "suspended" /\ config_name = "combined-json"
    /\ ApplyStep(JsonLoop(rows, pos, count))
    /\ UNCHANGED <<config_name, root_exists, generators, sg_result, joined, filepath, split,
                   d, rows>>
----------------------------------------------------------------------------

Init ==
    /\ config_name \in ConfigNames
    /\ root_exists \in BOOLEAN
    /\ generators = <<>> /\ sg_result = "not_called" /\ joined = {}
    /\ pc = "idle" /\ filepath = <<>> /\ split = ""
    /\ d = <<>> /\ rows = <<>> /\ pos = 0 /\ count = 0 /\ yielded = <<>> /\ error = "none"

Next ==
    \/ split_generators
    \/ \E g \in 1..Len(generators) : generate_examples(g)
    \/ next_open_fails
    \/ next_csv_first
    \/ next_csv
    \/ next_json_first
    \/ next_json

Spec == Init /\ [][Next]_vars

----------------------------------------------------------------------------
(* Vocabulary of the properties.                                           *)

IsNonBlank(r) == r # <<>>
NonBlank(rs) == SelectSeq(rs, IsNonBlank)

\* The rows the loop has taken from csv_reader after the discarded first row.
Consumed == SubSeq(rows, 2, pos)

\* The position of the file's first non-blank row (its header), or past the end.
FirstNonBlankIdx ==
    IF \E i \in 1..Len(rows) : rows[i] # <<>>
    THEN CHOOSE i \in 1..Len(rows) :
             rows[i] # <<>> /\ \A j \in 1..(i - 1) : rows[j] = <<>>
    ELSE Len(rows) + 1

\* The non-blank rows the pass has read after the header.
AfterHeader == NonBlank(SubSeq(rows, FirstNonBlankIdx + 1, pos))

\* out has every key of default, from raw where raw has the key and from
\* default where it has not.
SpanOk(out, raw, default) ==
    \A key \in DOMAIN default :
        /\ key \in DOMAIN out
        /\ out[key] = IF key \in DOMAIN raw THEN raw[key] ELSE default[key]

----------------------------------------------------------------------------
(* C1: the ids of the records one pass yields are 0, 1, ..., n-1 in yield  *)
(* order, for every file and every placement of blank rows.                *)
C1_DenseIds == \A k \in 1..Len(yielded) : yielded[k][1] = k - 1

(* C2 as stated: in the combined-delimited variant every record has         *)
(* story_id = first column, question = second column, story_text = last    *)
(* column and answer_char_ranges = the list literal of the columns from    *)
(* position 2 up to and including the second-to-last; the row              *)
(* ["A1","what?","0:3","","story."] right after the header yields          *)
(* "['0:3', '']" at id 0.                                                  *)
C2_RangesThroughSecondToLast ==
    config_name = "combined-csv" =>
        /\ \A k \in 1..Len(yielded) :
               LET r == NonBlank(Consumed)[k]
                   rec == yielded[k][2]
               IN  /\ rec.story_id = r[1]
                   /\ rec.question = r[2]
                   /\ rec.story_text = r[Len(r)]
                   /\ rec.answer_char_ranges = PyStrList(SubSeq(r, 3, Len(r) - 1))
        /\ (pos >= 2 /\ rows[2] = DataRow) =>
               /\ yielded[1][1] = 0
               /\ Str(yielded[1][2].answer_char_ranges) = "['0:3', '']"

(* C2 amended: in the combined-delimited variant every non-blank row after *)
(* the discarded first row that the pass reaches and that has at least two *)
(* columns is mapped to a record with story_id = first column, question =  *)
(* second column, story_text = last column and answer_char_ranges = the    *)
(* list literal of the columns from position 2 up to but excluding the     *)
(* second-to-last (row[2:-2]); the row ["A1","what?","0:3","","story."]    *)
(* right after the header yields "['0:3']" at id 0.                        *)
C2_RangesBeforeSecondToLast ==
    config_name = "combined-csv" =>
        /\ Len(yielded) <= Len(NonBlank(Consumed))
        /\ \A k \in 1..Len(NonBlank(Consumed)) :
               LET r == NonBlank(Consumed)[k]
               IN  Len(r) >= 2 =>
                       /\ k <= Len(yielded)
                       /\ yielded[k][2].story_id = r[1]
                       /\ yielded[k][2].question = r[2]
                       /\ yielded[k][2].story_text = r[Len(r)]
                       /\ yielded[k][2].answer_char_ranges
                              = PyStrList(SubSeq(r, 3, Len(r) - 2))
                       /\ r = DataRow =>
                              Str(yielded[k][2].answer_char_ranges) = "['0:3']"
                       /\ r = QuoteRow =>
                              Str(yielded[k][2].answer_char_ranges)
                                  = "['\\'\"', '\\\\', '0:3,5:7']"
        /\ (pos >= 2 /\ rows[2] = DataRow) =>
               yielded[1] = <<0, [story_id |-> <<"A","1">>,
                                  story_text |-> <<"s","t","o","r","y",".">>,
                                  question |-> <<"w","h","a","t","?">>,
                                  answer_char_ranges |-> <<"[","'","0",":","3","'","]">>]>>

C2_Witness ==
    /\ config_name = "combined-csv"
    /\ Len(rows) >= 3 /\ rows[1] = HeaderRow /\ rows[2] = DataRow /\ rows[3] = QuoteRow
    /\ Len(yielded) = 2

(* C3: for every delimited file, including one whose first line is blank,  *)
(* the header row is never yielded: the records of a pass are exactly      *)
(* those of the non-blank rows that follow the header, in file order.      *)
C3_HeaderNeverYielded ==
    (IsCsv /\ pc \in {"suspended", "done"}) =>
        /\ Len(yielded) = Len(AfterHeader)
        /\ \A k \in 1..Len(yielded) :
               yielded[k][2] = CsvRecord(config_name, AfterHeader[k])

(* C6: a non-blank row with too few columns (split: fewer than 4;          *)
(* combined-delimited: fewer than 3) aborts the pass with an error at that *)
(* row: it yields nothing, no later row is read, and the records yielded   *)
(* before it are those of the preceding non-blank rows.                    *)
C6_ShortRowAborts ==
    IsCsv =>
        \A i \in 2..pos :
            (/\ rows[i] # <<>>
             /\ Len(rows[i]) < (IF config_name = "combined-csv" THEN 3 ELSE 4))
            => /\ pc = "failed" /\ error = "IndexError"
               /\ i = pos
               /\ Len(yielded) = Len(NonBlank(SubSeq(rows, 2, i - 1)))

(* C10: a pass over a delimited file with no rows at all ends normally     *)
(* with zero records, and the only errors of a delimited pass are          *)
(* missing-data and malformed-input.                                       *)
C10_EmptyFileEndsNormally ==
    IsCsv =>
        /\ (pc \in {"done", "failed"} /\ error # "FileNotFoundError" /\ rows = <<>>)
               => (pc = "done" /\ yielded = <<>>)
        /\ pc = "failed" => error \in {"FileNotFoundError", "IndexError"}

(* C4: in the combined-structured variant every emitted span (consensus,   *)
(* each sourcerAnswers entry, each validated answer) has each of its       *)
(* schema keys equal to the raw value when the raw object has the key and  *)
(* to the fixed default (0, 0, false, false, count 0) when it has not;     *)
(* raw consensus {"s": 5} yields {s: 5, e: 0, badQuestion: false,          *)
(* noAnswer: false}.                                                       *)
C4_KeywiseDefaults ==
    config_name = "combined-json" =>
        \A k \in 1..Len(yielded) :
            \A j \in 1..Len(rows[k].questions) :
                LET rq == rows[k].questions[j]
                    oq == yielded[k][2].questions[j]
                    span == [s |-> 0, e |-> 0, badQuestion |-> FALSE, noAnswer |-> FALSE]
                    vspan == [s |-> 0, e |-> 0, badQuestion |-> FALSE, noAnswer |-> FALSE,
                              count |-> 0]
                IN  /\ SpanOk(oq.consensus, rq.consensus, span)
                    /\ rq.consensus = ("s" :> 5) =>
                           oq.consensus = [s |-> 5, e |-> 0, badQuestion |-> FALSE,
                                           noAnswer |-> FALSE]
                    /\ Len(oq.answers) = Len(rq.answers)
                    /\ \A a \in 1..Len(rq.answers) :
                           /\ Len(oq.answers[a].sourcerAnswers)
                                  = Len(rq.answers[a].sourcerAnswers)
                           /\ \A i \in 1..Len(rq.answers[a].sourcerAnswers) :
                                  SpanOk(oq.answers[a].sourcerAnswers[i],
                                         rq.answers[a].sourcerAnswers[i], span)
                    /\ "validatedAnswers" \in DOMAIN rq =>
                           /\ Len(oq.validated_answers) = Len(rq.validatedAnswers)
                           /\ \A v \in 1..Len(rq.validatedAnswers) :
                                  SpanOk(oq.validated_answers[v], rq.validatedAnswers[v], vspan)

C4_Witness ==
    /\ config_name = "combined-json"
    /\ \E k \in 1..Len(yielded) :
           /\ Len(rows[k].questions) = 2
           /\ rows[k].questions[1] = QuesBare
           /\ rows[k].questions[2] = QuesFull
           /\ yielded[k][2].questions[1].consensus.s = 5
           /\ yielded[k][2].questions[1].consensus.e = 0

(* C5: in the combined-structured variant a question without               *)
(* isAnswerAbsent, isQuestionBad and validatedAnswers yields               *)
(* isAnswerAbsent = 0, isQuestionBad = 0 and validated_answers = the empty *)
(* sequence; a key that is present has its raw value emitted, raw          *)
(* validatedAnswers under the key validated_answers with the same length   *)
(* and order.                                                              *)
C5_QuestionDefaults ==
    config_name = "combined-json" =>
        \A k \in 1..Len(yielded) :
            \A j \in 1..Len(rows[k].questions) :
                LET rq == rows[k].questions[j]
                    oq == yielded[k][2].questions[j]
                IN  /\ oq.isAnswerAbsent
                           = IF "isAnswerAbsent" \in DOMAIN rq THEN rq.isAnswerAbsent ELSE 0
                    /\ oq.isQuestionBad
                           = IF "isQuestionBad" \in DOMAIN rq THEN rq.isQuestionBad ELSE 0
                    /\ "validatedAnswers" \notin DOMAIN oq
                    /\ IF "validatedAnswers" \in DOMAIN rq
                       THEN /\ Len(oq.validated_answers) = Len(rq.validatedAnswers)
                            /\ \A v \in 1..Len(rq.validatedAnswers) :
                                   \A key \in DOMAIN rq.validatedAnswers[v] :
                                       oq.validated_answers[v][key]
                                           = rq.validatedAnswers[v][key]
                       ELSE oq.validated_answers = <<>>

C5_Witness ==
    /\ config_name = "combined-json"
    /\ \E k \in 1..Len(yielded) :
           /\ rows[k].questions # <<>>
           /\ {"isAnswerAbsent", "isQuestionBad", "validatedAnswers"}
                  \cap DOMAIN rows[k].questions[1] = {}
           /\ yielded[k][2].questions[1].isAnswerAbsent = 0
           /\ yielded[k][2].questions[1].validated_answers = <<>>
           /\ Len(yielded[k][2].questions[2].validated_answers) = 3

(* C7: in the combined-structured variant a document without a top-level   *)
(* `data` key makes the pass fail on the first pull, with zero records     *)
(* yielded.                                                                *)
C7_MissingDataFails ==
    (config_name = "combined-json" /\ d # <<>> /\ "data" \notin DOMAIN d[1]) =>
        /\ pc = "failed" /\ error = "KeyError"
        /\ yielded = <<>> /\ pos = 0

C7_Witness ==
    /\ config_name = "combined-json"
    /\ d # <<>> /\ "data" \notin DOMAIN d[1]
    /\ pc = "failed"

C9_SplitMapping ==
    config_name = "split" =>
        /\ Len(yielded) <= Len(NonBlank(Consumed))
        /\ \A k \in 1..Len(NonBlank(Consumed)) :
               LET r == NonBlank(Consumed)[k]
               IN  Len(r) >= 4 =>
                       /\ k <= Len(yielded)
                       /\ yielded[k][2] = [story_id |-> r[1], story_text |-> r[2],
                                           question |-> r[3], answer_token_ranges |-> r[4]]
                       /\ r = SplitRow =>
                              Str(yielded[k][2].answer_token_ranges) = "0:3,5:7"

C9_Witness ==
    /\ config_name = "split"
    /\ Len(rows) >= 3 /\ rows[2] = QuoteRow /\ rows[3] = SplitRow
    /\ Len(yielded) = 2
    /\ Str(yielded[2][2].story_text) = "story text"

====
